---- MODULE Spec2Model ----
(***************************************************************************)
(* Model of the validating route wrapper `put` of src/index.ts and of the  *)
(* sample route PUT /todo/:id registered with it.                          *)
(*                                                                         *)
(* JSON values are records [k |-> kind, v |-> value].  Scalars carry their *)
(* text in v; an object carries a function from its keys to JSON values.   *)
(* A property whose value is `undefined` is modelled as an absent key:     *)
(* Ajv's `required` and JSON serialisation both treat the two alike.       *)
(***************************************************************************)
EXTENDS Naturals, Sequences, FiniteSets

VARIABLES schemas, pc, req, arrived, resolved, trace, args, resBody, sent, err, mem

vars == <<schemas, pc, req, arrived, resolved, trace, args, resBody, sent, err, mem>>

(***************************************************************************)
(* JSON values                                                             *)
(***************************************************************************)
Undefined == [k |-> "undefined", v |-> ""]
Null == [k |-> "null", v |-> "null"]
Str(s) == [k |-> "string", v |-> s]
Bool(b) == [k |-> "boolean", v |-> IF b THEN "true" ELSE "false"]
Num(n) == [k |-> "number", v |-> n]
EmptyMap == [x \in {} |-> Undefined]
\* an object literal: properties evaluating to undefined are left out
Obj(f) == [k |-> "object", v |-> [x \in {y \in DOMAIN f : f[y] # Undefined} |-> f[x]]]
Arr == [k |-> "array", v |-> EmptyMap]

\* property access d.key
Get(d, key) == IF d.k = "object" /\ key \in DOMAIN d.v THEN d.v[key] ELSE Undefined

\* JavaScript truthiness, as used by the `!` operator
Truthy(d) ==
  CASE d.k = "boolean" -> d.v = "true"
    [] d.k = "string" -> d.v # ""
    [] d.k = "number" -> d.v # "0"
    [] d.k \in {"object", "array"} -> TRUE
    [] OTHER -> FALSE

(***************************************************************************)
(* JSON schemas and Ajv                                                    *)
(***************************************************************************)
\* the literal {} used when a schema reference is absent
EmptySchema == [type |-> "", properties |-> EmptyMap, required |-> {}]

EditTodoParamsJson ==
  [type |-> "object",
   properties |-> [x \in {"id"} |-> [type |-> "string", nullable |-> FALSE]],
   required |-> {"id"}]

EditTodoReqBodyJson ==
  [type |-> "object",
   properties |-> [x \in {"message", "completed?"} |->
                     IF x = "message" THEN [type |-> "string", nullable |-> FALSE]
                                      ELSE [type |-> "boolean", nullable |-> TRUE]],
   required |-> {"message"}]

EditTodoResBodyJson ==
  [type |-> "object",
   properties |-> [x \in {"id", "message", "completed"} |->
                     IF x = "completed" THEN [type |-> "boolean", nullable |-> FALSE]
                                        ELSE [type |-> "string", nullable |-> FALSE]],
   required |-> {"id", "message", "completed"}]

\* the files under ./schemas, by name
SchemaFiles ==
  [n \in {"EditTodoParams", "EditTodoReqBody", "EditTodoResBody"} |->
     CASE n = "EditTodoParams" -> EditTodoParamsJson
       [] n = "EditTodoReqBody" -> EditTodoReqBodyJson
       [] OTHER -> EditTodoResBodyJson]

\* a schema reference is used only when it is truthy
Absent == ""

\* does require(`./schemas/${ref}.json`) find a module
Resolvable(ref) == ref \in DOMAIN SchemaFiles

\* mutant: an absent reference falls back to the params schema instead of {}
LoadSchemaDefaulted(ref) == IF ref # Absent THEN SchemaFiles[ref] ELSE EditTodoParamsJson

\* schemas.x ? require(`./schemas/${schemas.x}.json`) : {}
LoadSchema(ref) == IF ref # Absent THEN SchemaFiles[ref] ELSE EmptySchema

\* one entry of `properties` applied to a present property
ValidateProperty(ps, d) == d.k = ps.type \/ (ps.nullable /\ d.k = "null")

\* the validating function ajv.compile(schema), applied to data
Validate(schema, data) ==
  /\ schema.type # "" => data.k = schema.type
  /\ data.k = "object" =>
       /\ schema.required \subseteq DOMAIN data.v
       /\ \A key \in DOMAIN schema.properties \cap DOMAIN data.v :
            ValidateProperty(schema.properties[key], data.v[key])

\* mutant: Ajv constructed with removeAdditional, dropping undeclared keys
AjvDataRemoveAdditional(schema, data) ==
  IF data.k = "object" /\ DOMAIN schema.properties # {}
    THEN [data EXCEPT !.v = [x \in DOMAIN data.v \cap DOMAIN schema.properties |-> data.v[x]]]
    ELSE data

\* the data after the validating function ran: new Ajv() sets none of
\* coerceTypes, useDefaults, removeAdditional, so data is left as it was
AjvData(schema, data) == data

(***************************************************************************)
(* Sample controller                                                       *)
(***************************************************************************)
\* mutant: the completed flag is normalised but not negated
editTodoNotNegated(params, reqBody, reqQuery) ==
  Obj([x \in {"id", "message", "completed"} |->
         CASE x = "id" -> Get(params, "id")
           [] x = "message" -> Get(reqBody, "message")
           [] OTHER -> Bool(Truthy(Get(reqBody, "completed")))])

\* mutant: a boolean flag is negated, anything else is passed through
editTodoBooleanOnly(params, reqBody, reqQuery) ==
  Obj([x \in {"id", "message", "completed"} |->
         CASE x = "id" -> Get(params, "id")
           [] x = "message" -> Get(reqBody, "message")
           [] OTHER -> IF Get(reqBody, "completed").k \in {"boolean", "undefined"}
                         THEN Bool(~Truthy(Get(reqBody, "completed")))
                         ELSE Get(reqBody, "completed")])

editTodo(params, reqBody, reqQuery) ==
  Obj([x \in {"id", "message", "completed"} |->
         CASE x = "id" -> Get(params, "id")
           [] x = "message" -> Get(reqBody, "message")
           [] OTHER -> Bool(~Truthy(Get(reqBody, "completed")))])

\* controller(req.params, req.body, req.query)
ControllerArgs(r) == <<r.params, r.body, r.query>>

validationError(name, params, schema) ==
  [kind |-> "validation", name |-> name, params |-> params, schema |-> schema]

\* the error require throws for a module it cannot find
RequireError(ref) == [kind |-> "MODULE_NOT_FOUND", name |-> ref]

(***************************************************************************)
(* Inputs                                                                  *)
(***************************************************************************)
Ids == {"1", "2"}
ParamsSpace == {Obj(EmptyMap)} \cup {Obj([x \in {"id"} |-> Str(i)]) : i \in Ids}
QuerySpace == {Obj(EmptyMap), Obj([x \in {"id"} |-> Str("1")])}
MessageSpace == {Undefined, Str("todo"), Num("1")}
CompletedSpace == {Undefined, Bool(TRUE), Bool(FALSE), Str("yes"), Null}
BodySpace ==
  {Arr} \cup
  {Obj([x \in {"message", "completed"} |-> IF x = "message" THEN m ELSE c]) :
     m \in MessageSpace, c \in CompletedSpace}
RequestSpace == [params : ParamsSpace, body : BodySpace, query : QuerySpace]

NoSuchSchema == "NoSuchSchema"
SchemasSpace ==
  [paramsSchema : {Absent, "EditTodoParams", NoSuchSchema},
   reqBodySchema : {Absent, "EditTodoReqBody", NoSuchSchema},
   resBodySchema : {Absent, "EditTodoResBody", NoSuchSchema},
   reqQuerySchema : {Absent, "EditTodoParams", NoSuchSchema}]

\* the registration of PUT /todo/:id
TodoSchemas ==
  [paramsSchema |-> "EditTodoParams",
   reqBodySchema |-> "EditTodoReqBody",
   resBodySchema |-> "EditTodoResBody",
   reqQuerySchema |-> Absent]

NoRequest == [params |-> Undefined, body |-> Undefined, query |-> Undefined]

(***************************************************************************)
(* State machine                                                           *)
(***************************************************************************)
Init ==
  /\ schemas \in SchemasSpace
  /\ pc = "idle"
  /\ req = NoRequest
  /\ arrived = NoRequest
  /\ resolved = <<>>
  /\ trace = <<>>
  /\ args = <<>>
  /\ resBody = Undefined
  /\ sent = <<>>
  /\ err = <<>>
  /\ mem = <<>>

Terminal == pc \in {"idle", "done", "thrown"}

\* history: requests started since the remembered one, counted up to MaxLater
MaxLater == 2
Later(m) ==
  IF m = <<>> THEN m
  ELSE <<[m[1] EXCEPT !.later = IF m[1].later < MaxLater THEN m[1].later + 1 ELSE MaxLater]>>

\* mutant: the error of the previous request is still set when the next starts
RequestStaleError(r) ==
  /\ Terminal
  /\ pc' = "paramsSchema"
  /\ req' = r
  /\ arrived' = r
  /\ resolved' = <<>>
  /\ trace' = <<>>
  /\ args' = <<>>
  /\ resBody' = Undefined
  /\ sent' = <<>>
  /\ err' = err
  /\ mem' = Later(mem)
  /\ UNCHANGED schemas

\* the router invokes wrappedController(req, res)
Request(r) ==
  /\ Terminal
  /\ pc' = "paramsSchema"
  /\ req' = r
  /\ arrived' = r
  /\ resolved' = <<>>
  /\ trace' = <<>>
  /\ args' = <<>>
  /\ resBody' = Undefined
  /\ sent' = <<>>
  /\ err' = <<>>
  /\ mem' = Later(mem)
  /\ UNCHANGED schemas

\* mutant: a reference that cannot be resolved falls back to {} instead of throwing
ResolveLenient(at, point, next) ==
  /\ pc = at
  /\ pc' = next
  /\ resolved' = Append(resolved, [point |-> point,
                                    schema |-> IF Resolvable(schemas[point])
                                                 THEN SchemaFiles[schemas[point]]
                                                 ELSE EmptySchema])
  /\ UNCHANGED <<schemas, req, arrived, trace, args, resBody, sent, err, mem>>

\* const xSchema = schemas.x ? require(...) : {}; ajv.compile(xSchema)
Resolve(at, point, next) ==
  /\ pc = at
  /\ IF schemas[point] # Absent /\ ~Resolvable(schemas[point])
       THEN /\ pc' = "thrown"
            /\ err' = <<RequireError(schemas[point])>>
            /\ UNCHANGED resolved
       ELSE /\ pc' = next
            /\ resolved' = Append(resolved, [point |-> point, schema |-> LoadSchema(schemas[point])])
            /\ UNCHANGED err
  /\ UNCHANGED <<schemas, req, arrived, trace, args, resBody, sent, mem>>

CurrentSchema == resolved[Len(resolved)].schema

\* mutant: the failure is noted but not thrown, the pipeline goes on
ValidateInputNoThrow(at, field, name, next) ==
  /\ pc = at
  /\ req' = [req EXCEPT ![field] = AjvData(CurrentSchema, req[field])]
  /\ pc' = next
  /\ trace' = Append(trace, [stage |-> field, ok |-> Validate(CurrentSchema, req[field])])
  /\ err' = IF Validate(CurrentSchema, req[field]) THEN err
            ELSE <<validationError(name, req[field], CurrentSchema)>>
  /\ UNCHANGED <<schemas, arrived, resolved, args, resBody, sent, mem>>

\* if (!validateX(req.x)) throw validationError(name, req.x, xSchema)
ValidateInput(at, field, name, next) ==
  /\ pc = at
  /\ req' = [req EXCEPT ![field] = AjvData(CurrentSchema, req[field])]
  /\ IF Validate(CurrentSchema, req[field])
       THEN /\ pc' = next
            /\ trace' = Append(trace, [stage |-> field, ok |-> TRUE])
            /\ UNCHANGED err
       ELSE /\ pc' = "thrown"
            /\ trace' = Append(trace, [stage |-> field, ok |-> FALSE])
            /\ err' = <<validationError(name, req[field], CurrentSchema)>>
  /\ UNCHANGED <<schemas, arrived, resolved, args, resBody, sent, mem>>

ResolveParams == Resolve("paramsSchema", "paramsSchema", "validateParams")
ValidateParams == ValidateInput("validateParams", "params", "request", "reqBodySchema")
ResolveReqBody == Resolve("reqBodySchema", "reqBodySchema", "validateReqBody")
ValidateReqBody == ValidateInput("validateReqBody", "body", "body", "reqQuerySchema")
ResolveReqQuery == Resolve("reqQuerySchema", "reqQuerySchema", "validateReqQuery")
ValidateReqQuery == ValidateInput("validateReqQuery", "query", "query", "controller")

\* const resBody = controller(req.params, req.body, req.query)
CallController ==
  /\ pc = "controller"
  /\ args' = ControllerArgs(req)
  /\ resBody' = editTodo(ControllerArgs(req)[1], ControllerArgs(req)[2], ControllerArgs(req)[3])
  /\ trace' = Append(trace, [stage |-> "handler", ok |-> TRUE])
  /\ pc' = "resBodySchema"
  /\ UNCHANGED <<schemas, req, arrived, resolved, sent, err, mem>>

ResolveResBody == Resolve("resBodySchema", "resBodySchema", "validateResBody")

\* mutant: a response failing validation is sent all the same
ValidateResBodyNoThrow ==
  /\ pc = "validateResBody"
  /\ resBody' = AjvData(CurrentSchema, resBody)
  /\ pc' = "send"
  /\ trace' = Append(trace, [stage |-> "response", ok |-> Validate(CurrentSchema, resBody)])
  /\ UNCHANGED <<schemas, req, arrived, resolved, args, sent, err, mem>>

\* if (!validateResBody(resBody)) throw validationError("response body", ...)
ValidateResBody ==
  /\ pc = "validateResBody"
  /\ resBody' = AjvData(CurrentSchema, resBody)
  /\ IF Validate(CurrentSchema, resBody)
       THEN /\ pc' = "send"
            /\ trace' = Append(trace, [stage |-> "response", ok |-> TRUE])
            /\ UNCHANGED err
       ELSE /\ pc' = "thrown"
            /\ trace' = Append(trace, [stage |-> "response", ok |-> FALSE])
            /\ err' = <<validationError("response body", resBody, CurrentSchema)>>
  /\ UNCHANGED <<schemas, req, arrived, resolved, args, sent, mem>>

\* mutant: the response is written twice
SendTwice ==
  /\ pc = "send"
  /\ sent' = sent \o <<[status |-> 200, body |-> resBody], [status |-> 200, body |-> resBody]>>
  /\ pc' = "done"
  /\ UNCHANGED <<schemas, req, arrived, resolved, trace, args, resBody, err, mem>>

\* res.status(200).json(resBody)
Send ==
  /\ pc = "send"
  /\ sent' = Append(sent, [status |-> 200, body |-> resBody])
  /\ pc' = "done"
  /\ UNCHANGED <<schemas, req, arrived, resolved, trace, args, resBody, err, mem>>

Next ==
  \/ \E r \in RequestSpace : Request(r)
  \/ ResolveParams
  \/ ValidateParams
  \/ ResolveReqBody
  \/ ValidateReqBody
  \/ ResolveReqQuery
  \/ ValidateReqQuery
  \/ CallController
  \/ ResolveResBody
  \/ ValidateResBody
  \/ Send

Spec == Init /\ [][Next]_vars

(***************************************************************************)
(* History of one earlier request, for comparing two issues of a request   *)
(***************************************************************************)
HistRequestSpace ==
  {r \in RequestSpace :
     /\ Get(r.params, "id") \in {Undefined, Str("1")}
     /\ r.body.k = "object"
     /\ Get(r.body, "message") \in {Undefined, Str("todo")}
     /\ Get(r.body, "completed") \in {Undefined, Bool(TRUE), Str("yes")}
     /\ r.query = Obj(EmptyMap)}

\* keep the request just finished and its outcome
Remember ==
  /\ pc \in {"done", "thrown"}
  /\ mem = <<>>
  /\ mem' = <<[req |-> arrived, sent |-> sent, err |-> err, later |-> 0]>>
  /\ UNCHANGED <<schemas, pc, req, arrived, resolved, trace, args, resBody, sent, err>>

NextHist ==
  \/ \E r \in HistRequestSpace : Request(r)
  \/ ResolveParams
  \/ ValidateParams
  \/ ResolveReqBody
  \/ ValidateReqBody
  \/ ResolveReqQuery
  \/ ValidateReqQuery
  \/ CallController
  \/ ResolveResBody
  \/ ValidateResBody
  \/ Send
  \/ Remember

SpecHist == Init /\ [][NextHist]_vars

(***************************************************************************)
(* Properties                                                              *)
(***************************************************************************)
Order == <<"params", "body", "query", "handler", "response">>
Ran(s) == \E i \in DOMAIN trace : trace[i].stage = s
Passed(s) == \E i \in DOMAIN trace : trace[i].stage = s /\ trace[i].ok
Finished == pc \in {"done", "thrown"}
PointOrder == <<"paramsSchema", "reqBodySchema", "reqQuerySchema", "resBodySchema">>
PointOf(s) ==
  CASE s = "params" -> "paramsSchema"
    [] s = "body" -> "reqBodySchema"
    [] s = "query" -> "reqQuerySchema"
    [] OTHER -> "resBodySchema"
Validations == {i \in DOMAIN trace : trace[i].stage # "handler"}
Usable(ref) == ref = Absent \/ Resolvable(ref)

\* C1: the stages of a request run in the order params, body, query, handler,
\* response, and a stage that failed is the last one run; so the handler runs
\* only after the three input validations passed.
C1_StageOrder ==
  /\ Len(trace) <= Len(Order)
  /\ \A i \in DOMAIN trace : trace[i].stage = Order[i]
  /\ \A i \in DOMAIN trace : i < Len(trace) => trace[i].ok
  /\ Ran("handler") => Passed("params") /\ Passed("body") /\ Passed("query")
  /\ (\E i \in DOMAIN trace : ~trace[i].ok) => pc = "thrown"

C1_Witness ==
  /\ pc = "thrown"
  /\ Len(trace) = 2
  /\ trace[1].ok /\ ~trace[2].ok

\* C2 as stated: a finished request either passed all four validations and
\* sent one status-200 response with the handler's value, or raised a
\* validation error and sent nothing; no stage runs twice.
C2_Original ==
  /\ \A i, j \in DOMAIN trace : trace[i].stage = trace[j].stage => i = j
  /\ Finished =>
       LET ok == /\ \A s \in {"params", "body", "query", "response"} : Passed(s)
                 /\ sent = <<[status |-> 200, body |-> resBody]>>
                 /\ err = <<>>
           failed == /\ Len(err) = 1 /\ err[1].kind = "validation"
                     /\ sent = <<>>
       IN  ok # failed

\* C2 amended: a finished request either passed all four validations and sent
\* one status-200 response with the handler's value, or raised one error (a
\* validation error or the error of a schema reference that does not
\* resolve) and sent nothing; no stage runs twice, nothing is sent before
\* the end.
C2_Outcome ==
  /\ \A i, j \in DOMAIN trace : trace[i].stage = trace[j].stage => i = j
  /\ ~Finished => sent = <<>> /\ err = <<>>
  /\ Finished =>
       LET ok == /\ \A s \in {"params", "body", "query", "response"} : Passed(s)
                 /\ sent = <<[status |-> 200, body |-> resBody]>>
                 /\ resBody = editTodo(args[1], args[2], args[3])
                 /\ err = <<>>
           failed == /\ Len(err) = 1
                     /\ err[1].kind \in {"validation", "MODULE_NOT_FOUND"}
                     /\ err[1].kind = "validation" <=> (\E i \in DOMAIN trace : ~trace[i].ok)
                     /\ sent = <<>>
       IN  ok # failed

C2_Witness ==
  /\ pc = "done"
  /\ Len(sent) = 1
  /\ Len(trace) = 5

\* C3: when the inputs passed and the handler's value violates the declared
\* response schema, nothing is sent and the request ends with the validation
\* error of the response stage, raised after the handler ran.
C3_ResponseRejected ==
  (/\ Ran("handler")
   /\ Resolvable(schemas.resBodySchema)
   /\ ~Validate(SchemaFiles[schemas.resBodySchema], resBody))
  => /\ sent = <<>>
     /\ Passed("params") /\ Passed("body") /\ Passed("query")
     /\ pc \in {"resBodySchema", "validateResBody", "thrown"}
     /\ pc = "thrown" =>
          /\ trace[Len(trace)] = [stage |-> "response", ok |-> FALSE]
          /\ err = <<validationError("response body", resBody, SchemaFiles[schemas.resBodySchema])>>

C3_Witness ==
  /\ pc = "thrown"
  /\ Len(trace) = 5
  /\ ~trace[5].ok
  /\ schemas.resBodySchema = "EditTodoResBody"

\* C4: on the PUT /todo/:id route a request with a string id and a body with
\* a string message is answered with status 200 and {id, message, completed},
\* completed being true for an absent or false (or otherwise falsy) flag and
\* false for a true (or otherwise truthy) flag.
C4_TodoResponse ==
  (/\ schemas = TodoSchemas
   /\ Finished
   /\ Get(arrived.params, "id").k = "string"
   /\ Get(arrived.body, "message").k = "string")
  => LET c == Get(arrived.body, "completed")
         negated == CASE c = Undefined -> Bool(TRUE)
                      [] c = Bool(TRUE) -> Bool(FALSE)
                      [] c = Bool(FALSE) -> Bool(TRUE)
                      [] c = Null -> Bool(TRUE)
                      [] c = Str("yes") -> Bool(FALSE)
     IN  sent = <<[status |-> 200,
                   body |-> [k |-> "object",
                             v |-> [x \in {"id", "message", "completed"} |->
                                      CASE x = "id" -> arrived.params.v["id"]
                                        [] x = "message" -> arrived.body.v["message"]
                                        [] OTHER -> negated]]]>>

C4_Witness ==
  /\ schemas = TodoSchemas
  /\ pc = "done"
  /\ arrived.params = Obj([x \in {"id"} |-> Str("1")])
  /\ arrived.body = Obj([x \in {"message"} |-> Str("todo")])
  /\ Get(sent[1].body, "completed") = Bool(TRUE)

\* C5: a stage whose schema reference is absent never fails, and with all
\* four references absent every request ends with the handler's value sent
\* with status 200.
C5_AbsentAccepts ==
  /\ \A i \in DOMAIN trace : ~trace[i].ok => schemas[PointOf(trace[i].stage)] # Absent
  /\ (Finished /\ \A p \in DOMAIN schemas : schemas[p] = Absent) =>
       /\ pc = "done"
       /\ Ran("handler")
       /\ sent = <<[status |-> 200, body |-> editTodo(arrived.params, arrived.body, arrived.query)]>>

C5_Witness ==
  /\ \A p \in DOMAIN schemas : schemas[p] = Absent
  /\ pc = "done"
  /\ arrived.body = Arr
  /\ arrived.params = Obj(EmptyMap)

\* C6: validation leaves the request as it arrived, the handler is called
\* with the arrived params, body and query in that order, and the body sent
\* is the value the handler returned.
C6_Unchanged ==
  /\ req = arrived
  /\ Ran("handler") =>
       /\ args = <<arrived.params, arrived.body, arrived.query>>
       /\ resBody = editTodo(args[1], args[2], args[3])
  /\ sent # <<>> => sent[1].body = editTodo(args[1], args[2], args[3])

C6_Witness ==
  /\ pc = "done"
  /\ schemas = TodoSchemas
  /\ Get(arrived.body, "completed") = Bool(TRUE)
  /\ arrived.query # Obj(EmptyMap)

\* C7: a request that finishes has the outcome the same request had when it
\* was issued earlier, whatever requests were handled in between.
C7_SameOutcome ==
  (Finished /\ mem # <<>> /\ mem[1].req = arrived)
  => mem[1].sent = sent /\ mem[1].err = err

C7_Witness ==
  /\ pc = "done"
  /\ mem # <<>>
  /\ mem[1].req = arrived
  /\ mem[1].later = MaxLater
  /\ mem[1].sent = sent

\* C8 as stated: no validation stage and no handler call happens before all
\* four schemas are resolved, so a request whose schema reference does not
\* resolve fails before the handler is invoked.
C8_Original ==
  /\ trace # <<>> => Len(resolved) = Len(PointOrder)
  /\ (err # <<>> /\ err[1].kind = "MODULE_NOT_FOUND") => ~Ran("handler")

\* C8 amended: each schema is resolved just before the stage that uses it,
\* in the order params, body, query, response, the response schema only
\* after the handler ran; a stage whose reference does not resolve never
\* runs; an unresolvable input reference fails the request before the
\* handler, an unresolvable response reference after it and before anything
\* is sent.
C8_LazyResolve ==
  /\ Len(resolved) <= Len(PointOrder)
  /\ \A i \in DOMAIN resolved : resolved[i].point = PointOrder[i]
  /\ Cardinality(Validations) <= Len(resolved)
  /\ Len(resolved) <= Cardinality(Validations) + 1
  /\ Len(resolved) = Len(PointOrder) => Ran("handler")
  /\ \A i \in Validations : Usable(schemas[PointOf(trace[i].stage)])
  /\ Ran("handler") => \A i \in 1..3 : Usable(schemas[PointOrder[i]])
  /\ sent # <<>> => Usable(schemas.resBodySchema)
  /\ (err # <<>> /\ err[1].kind = "MODULE_NOT_FOUND") =>
       /\ sent = <<>>
       /\ err[1].name = schemas[PointOrder[Len(resolved) + 1]]
       /\ Ran("handler") <=> Len(resolved) = 3

C8_Witness ==
  /\ pc = "thrown"
  /\ err[1].kind = "MODULE_NOT_FOUND"
  /\ Ran("handler")
  /\ Len(resolved) = 3

\* C9 as stated: a validation error names the payload that failed as params,
\* body, query or response and carries the offending value and the schema.
C9_Original ==
  (err # <<>> /\ err[1].kind = "validation")
  => LET s == trace[Len(trace)].stage
     IN  /\ err[1].name \in (CASE s = "params" -> {"params"}
                               [] s = "body" -> {"body"}
                               [] s = "query" -> {"query"}
                               [] OTHER -> {"response", "response body"})
         /\ err[1].params = (IF s = "response" THEN resBody ELSE arrived[s])
         /\ err[1].schema = LoadSchema(schemas[PointOf(s)])

\* C10: on the PUT /todo/:id route the response stage never fails: a request
\* whose params and body passed ends with a status-200 response whose id and
\* message are strings and whose completed is a boolean.
C10_TodoResponseValid ==
  schemas = TodoSchemas =>
    /\ \A i \in DOMAIN trace : trace[i].stage = "response" => trace[i].ok
    /\ Ran("handler") =>
         /\ DOMAIN resBody.v = {"id", "message", "completed"}
         /\ resBody.v["id"].k = "string"
         /\ resBody.v["message"].k = "string"
         /\ resBody.v["completed"].k = "boolean"
    /\ (Finished /\ Passed("params") /\ Passed("body")) =>
         /\ pc = "done"
         /\ sent = <<[status |-> 200, body |-> resBody]>>

C10_Witness ==
  /\ schemas = TodoSchemas
  /\ pc = "done"
  /\ Get(arrived.body, "completed") = Str("yes")
  /\ Get(sent[1].body, "completed") = Bool(FALSE)
====
